---- MODULE Spec2Model ----
(***************************************************************************)
(* A model of the generic data access object of src/core/db/dao.py         *)
(* (DAOBase) over one SQLAlchemy AsyncSession, for an entity type          *)
(* Account{id, name, balance} derived from Base (src/core/db/model.py).    *)
(*                                                                         *)
(* Spec   : the CRUD operations, the session's unit of work and the        *)
(*          transaction (create, create_many, update, delete, get and the  *)
(*          caller's own commit / rollback).                               *)
(* SpecQ  : the statements get_multi, count and order_by build and what    *)
(*          their execution returns over a table of rows.                  *)
(***************************************************************************)
EXTENDS Integers, Sequences, FiniteSets, TLC

\* ------------------------------------------------------------------ bounds

MaxId == 2      \* identifiers uuid4 can draw: PyUuid(1) .. PyUuid(MaxId)
MaxObj == 1     \* Python entity instances the caller holds at a time
MaxTime == 1    \* values datetime.utcnow can return: 1 .. MaxTime

Ids == 1..MaxId
Handles == 1..MaxObj
Times == 1..MaxTime

\* ------------------------------------------------------------------ values
\* A Python value is a pair <<type tag, payload>>; two values are equal iff
\* both parts are.  "uuidtext" and "isotext" are str values: the text of a
\* UUID and the ISO text of a datetime.

None == <<"none", 0>>
Unset == <<"unset", 0>>        \* the attribute is not in the instance __dict__
PyStr(s) == <<"str", s>>
PyInt(n) == <<"int", n>>
PyUuid(i) == <<"uuid", i>>
PyDt(t) == <<"datetime", t>>

Names == {PyStr("A"), PyStr("B")}
Balances == {PyInt(0), PyInt(1)}

\* The columns of the entity: Base.id, Base.date_added, Base.date_updated and
\* the two columns of the concrete entity type.
Fields == {"id", "name", "balance", "date_added", "date_updated"}
SaState == "_sa_instance_state"
\* Keys a mapping may carry: the columns, a key that names no column, and the
\* instrumentation key SQLAlchemy keeps in every instance __dict__.
Keys == Fields \cup {"nickname", SaState}

\* key.startswith("_sa") over Keys.
StartsWithSa(key) == key = SaState

\* ------------------------------------------------------------- exceptions

NoExc == [type |-> "none", status |-> 0, detail |-> ""]
Raw(t) == [type |-> t, status |-> 0, detail |-> ""]

\* class DAOExceptionBase(Exception): status_code, detail
DAOExceptionBase(status_code, detail) ==
    [type |-> "DAOExceptionBase", status |-> status_code, detail |-> detail]

\* class DAOConflictException(DAOExceptionBase): defaults 409, "Conflict."
DAOConflictException ==
    [type |-> "DAOConflictException", status |-> 409, detail |-> "Conflict."]

\* The exception classes of sqlalchemy.exc the model raises, and TypeError.
SQLAlchemyErrors ==
    {"IntegrityError", "OperationalError", "InvalidRequestError", "NoResultFound",
     "InterfaceError"}
RawTypes == SQLAlchemyErrors \cup {"TypeError"}

\* isinstance(e, cls) for the classes catch_sqlalchemy_exception names.
IsInstance(e, cls) ==
    CASE cls = "IntegrityError" -> e.type = "IntegrityError"
      [] cls = "SQLAlchemyError" -> e.type \in SQLAlchemyErrors
      [] OTHER -> e.type = cls

\* with self.catch_sqlalchemy_exception(): what leaves the block when e is
\* raised inside it (NoExc when nothing is raised).
catch_sqlalchemy_exception(e) ==
    IF IsInstance(e, "IntegrityError")
    THEN DAOConflictException
    ELSE IF IsInstance(e, "SQLAlchemyError")
    THEN DAOExceptionBase(500, "An exception occurred")
    ELSE e

\* ---------------------------------------------------------------- encoder
\* The objects handed to jsonable_encoder: a pydantic record, a plain
\* mapping, an entity instance, or a single value.

Record(fields, fields_set) ==
    [kind |-> "BaseModel", items |-> fields, set |-> fields_set]
Mapping(items) == [kind |-> "dict", items |-> items, set |-> DOMAIN items]

\* The encoding of one value: str, int and None are returned as they are, a
\* UUID goes through ENCODERS_BY_TYPE[UUID] = str, a datetime through
\* isoformat.
EncodeValue(v) ==
    CASE v[1] = "uuid" -> <<"uuidtext", v[2]>>
      [] v[1] = "datetime" -> <<"isotext", v[2]>>
      [] OTHER -> v

\* The dict branch: keys starting with "_sa" are dropped, every other entry
\* is kept with its value encoded (include, exclude and exclude_none are not
\* passed by the DAO).
EncodeDict(items) ==
    [k \in {x \in DOMAIN items : ~StartsWithSa(x)} |-> EncodeValue(items[k])]

Encoded(v) == [exc |-> NoExc, val |-> v]
EncodeFailed(t) == [exc |-> Raw(t), val |-> << >>]

\* jsonable_encoder(obj).  A BaseModel is turned into obj.dict() and encoded
\* again with custom_encoder=..., a keyword jsonable_encoder does not take:
\* the call raises TypeError.  Anything else that is not a dict, a list or a
\* plain value falls through to vars(obj), encoded as a dict.
jsonable_encoder(obj) ==
    CASE obj.kind = "BaseModel" -> EncodeFailed("TypeError")
      [] obj.kind = "dict" -> Encoded(EncodeDict(obj.items))
      [] obj.kind = "entity" -> Encoded(EncodeDict(obj.items))

\* ---------------------------------------------------------------- encoder
\* core/utils/encoders.py.  Values are the tagged pairs above, with
\*   <<"dict", pairs>>       a dict: the sequence of its <<key, value>> items,
\*                           in insertion order, keys distinct
\*   <<"list", items>>       a list
\*   <<"BaseModel", r>>      an instance of the schema type r.type with the
\*                           field items r.pairs
\*   <<"dataclass", pairs>>  a dataclass instance with the field items pairs

MaxPairs == 3

PyDict(pairs) == <<"dict", pairs>>
PyList(items) == <<"list", items>>
PyModel(type, pairs) == <<"BaseModel", [type |-> type, pairs |-> pairs]>>
PyDataclass(pairs) == <<"dataclass", pairs>>

\* A set or dict given for include / exclude, or None.
Given(keys) == [given |-> TRUE, keys |-> keys]
NotGiven == [given |-> FALSE, keys |-> {}]

\* custom_encoder=None
NoCustom == [k \in {} |-> ""]

\* schema/base.py, BaseModel.Config.json_encoders: type name -> encoder.
BaseJsonEncoders ==
    [k \in {"datetime", "Enum", "EnumMeta"} |->
        CASE k = "datetime" -> "add_timezone_to_datetime"
          [] k = "Enum" -> "enum_value"
          [] k = "EnumMeta" -> "None"]

\* The schema types of the application, each with its own Config.
SchemaTypes == {"AccountCreate"}

\* pydantic.json.ENCODERS_BY_TYPE, over the types of the model.
ENCODERS_BY_TYPE ==
    [k \in {"uuid", "datetime"} |-> IF k = "uuid" THEN "str" ELSE "isoformat"]

\* dict.update(other)
DictUpdate(d, other) ==
    [k \in DOMAIN d \cup DOMAIN other |-> IF k \in DOMAIN other THEN other[k] ELSE d[k]]

\* The result of an encoder call: the exception raised (NoExc: none), the
\* value returned, and json_encoders of every schema type after the call.
EncResult(exc, val, cfg) == [exc |-> exc, val |-> val, cfg |-> cfg]

\* isinstance(key, str) and key.startswith("_sa")
KeyStartsWithSa(key) == key[1] = "str" /\ StartsWithSa(key[2])

\* encoded_dict[encoded_key] = encoded_value: a new key is appended, a key
\* already there keeps its place and takes the new value.
SetItem(encoded_dict, k, v) ==
    IF \E i \in DOMAIN encoded_dict : encoded_dict[i][1] = k
    THEN [i \in DOMAIN encoded_dict |->
            IF encoded_dict[i][1] = k THEN <<k, v>> ELSE encoded_dict[i]]
    ELSE Append(encoded_dict, <<k, v>>)

\* allowed_keys = set(obj.keys()); &= set(include); -= set(exclude)
AllowedKeys(pairs, include, exclude) ==
    LET keys == {pairs[i][1] : i \in DOMAIN pairs}
        included == IF include.given THEN keys \cap include.keys ELSE keys
    IN IF exclude.given THEN included \ exclude.keys ELSE included

\* The keywords BaseModel.dict of schema/base.py accepts.
DictKeywords ==
    {"include", "exclude", "by_alias", "skip_defaults", "exclude_unset",
     "exclude_defaults", "exclude_none"}

\* The keywords schema_encoder passes to obj.dict.
SchemaDictCall ==
    {"include", "exclude", "by_alias", "exclude_unset", "exclude_defaults",
     "exclude_none", "custom_encoder"}

\* obj.dict(include=..., exclude=..., exclude_none=...): the field items
\* that pass the filters.
ModelDict(pairs, include, exclude, exclude_none) ==
    SelectSeq(pairs, LAMBDA p :
        /\ p[1] \in AllowedKeys(pairs, include, exclude)
        /\ (p[2] # None \/ ~exclude_none))

RECURSIVE encode(_, _, _, _, _, _)
RECURSIVE dict_items(_, _, _, _, _, _, _, _)
RECURSIVE sequence_items(_, _, _, _, _, _, _, _)

\* schema_encoder.  For a BaseModel: encoder is json_encoders of the type,
\* the very dict of its Config; encoder.update(custom_encoder) when one is
\* passed; obj.dict(..., custom_encoder=encoder); then the dict is encoded.
\* For a dataclass: the recursive call reads the local encoder, which is
\* assigned only in the BaseModel branch.
schema_encoder(obj, include, exclude, exclude_none, custom_encoder, cfg) ==
    IF obj[1] = "BaseModel"
    THEN LET type == obj[2].type
             encoder == IF DOMAIN custom_encoder # {}
                        THEN DictUpdate(cfg[type], custom_encoder)
                        ELSE cfg[type]
             cfg2 == [cfg EXCEPT ![type] = encoder]
         IN IF ~(SchemaDictCall \subseteq DictKeywords)
            THEN EncResult(Raw("TypeError"), None, cfg2)
            ELSE encode(PyDict(ModelDict(obj[2].pairs, include, exclude, exclude_none)),
                        include, exclude, exclude_none, encoder, cfg2)
    ELSE EncResult(Raw("UnboundLocalError"), None, cfg)

\* dict_encoder: the loop over obj.items(), from item i on.
dict_items(pairs, i, encoded_dict, include, exclude, exclude_none, custom_encoder, cfg) ==
    IF i > Len(pairs)
    THEN EncResult(NoExc, PyDict(encoded_dict), cfg)
    ELSE LET key == pairs[i][1]
             value == pairs[i][2]
         IN IF /\ ~KeyStartsWithSa(key)
               /\ (value # None \/ ~exclude_none)
               /\ key \in AllowedKeys(pairs, include, exclude)
            THEN LET k == encode(key, NotGiven, NotGiven, FALSE, NoCustom, cfg)
                     v == encode(value, include, exclude, exclude_none,
                                 custom_encoder, k.cfg)
                 IN IF k.exc # NoExc THEN k
                    ELSE IF v.exc # NoExc THEN v
                    ELSE dict_items(pairs, i + 1, SetItem(encoded_dict, k.val, v.val),
                                    include, exclude, exclude_none, custom_encoder, v.cfg)
            ELSE dict_items(pairs, i + 1, encoded_dict,
                            include, exclude, exclude_none, custom_encoder, cfg)

dict_encoder(pairs, include, exclude, exclude_none, custom_encoder, cfg) ==
    dict_items(pairs, 1, << >>, include, exclude, exclude_none, custom_encoder, cfg)

\* sequence_encoder: list(map(...)), from item i on.
sequence_items(items, i, out, include, exclude, exclude_none, custom_encoder, cfg) ==
    IF i > Len(items)
    THEN EncResult(NoExc, PyList(out), cfg)
    ELSE LET v == encode(items[i], include, exclude, exclude_none, custom_encoder, cfg)
         IN IF v.exc # NoExc THEN v
            ELSE sequence_items(items, i + 1, Append(out, v.val),
                                include, exclude, exclude_none, custom_encoder, v.cfg)

sequence_encoder(items, include, exclude, exclude_none, custom_encoder, cfg) ==
    sequence_items(items, 1, << >>, include, exclude, exclude_none, custom_encoder, cfg)

\* jsonable_encoder of encoders.py, the one core.utils exports.
encode(obj, include, exclude, exclude_none, custom_encoder, cfg) ==
    CASE obj[1] \in {"str", "int", "none", "uuidtext", "isotext"} ->
            EncResult(NoExc, obj, cfg)
      [] obj[1] = "dict" ->
            dict_encoder(obj[2], include, exclude, exclude_none, custom_encoder, cfg)
      [] obj[1] = "list" ->
            sequence_encoder(obj[2], include, exclude, exclude_none, custom_encoder, cfg)
      [] obj[1] \in {"BaseModel", "dataclass"} ->
            schema_encoder(obj, include, exclude, exclude_none, custom_encoder, cfg)
      [] obj[1] \in DOMAIN ENCODERS_BY_TYPE ->
            EncResult(NoExc, EncodeValue(obj), cfg)

\* The encoder before its first call: json_encoders of every schema type as
\* its Config declares it, and the global registry.
EncIdle ==
    [pc |-> "idle",
     json_encoders |-> [t \in SchemaTypes |-> BaseJsonEncoders],
     registry |-> ENCODERS_BY_TYPE]

\* ---------------------------------------------------------------- session
\* The state of the program: the committed table, the table as the session's
\* open transaction sees it, the entity instances, and the last DAO call.

VARIABLES
    store,      \* committed rows, by identifier
    tx,         \* rows inside the session's transaction (flushed, uncommitted)
    objs,       \* the entity instances, by handle
    last,       \* the last call: its arguments and what reached the caller
    table,      \* SpecQ: the rows a statement is executed over, in storage order
    stmt,       \* SpecQ: the statement the caller holds
    qlast,      \* SpecQ: the last query call and what reached the caller
    gather,     \* SpecG: one get_multi call, its two reads in flight
    coder,      \* SpecE: the encoder's registries, its last call and result
    hook,       \* SpecH: one run of session_after_request
    mw          \* SpecM: one request inside TimeoutMiddleware

vars == <<store, tx, objs, last, table, stmt, qlast, gather, coder, hook, mw>>
crudVars == <<store, tx, objs, last>>
queryVars == <<table, stmt, qlast>>
auxVars == <<gather, coder, hook, mw>>

\* An instance: its SQLAlchemy state, its identity key (0: none), whether its
\* row was inserted by the open transaction, and its __dict__.
\*   free       no such instance yet
\*   transient  not in the session
\*   pending    added, INSERT not flushed
\*   persistent in the session, with a row
\*   todelete   db.delete called, DELETE not flushed
\*   deleted    DELETE flushed, not committed
\*   detached   DELETE committed
Expired == [f \in Fields |-> Unset]
FreeObj == [st |-> "free", key |-> 0, new |-> FALSE, attrs |-> Expired]

InSession(o) == o.st \in {"pending", "persistent", "todelete", "deleted"}

\* Column(UUID(as_uuid=True)): the text of a UUID is stored, and loaded back,
\* as the UUID.
ColValue(f, v) == IF f = "id" /\ v[1] = "uuidtext" THEN PyUuid(v[2]) ELSE v

\* vars(db_obj): the loaded attributes and the instrumentation key.
ObjVars(o) ==
    [k \in {f \in Fields : o.attrs[f] # Unset} \cup {SaState} |->
        IF k = SaState THEN None ELSE o.attrs[k]]
Entity(o) == [kind |-> "entity", items |-> ObjVars(o), set |-> {}]

\* The identifier the INSERT of a pending instance uses: the one given to the
\* constructor, else the column default uuid4 (gen).
InsertId(o, g) == IF o.attrs["id"] = Unset THEN g ELSE o.attrs["id"][2]

\* The row an INSERT writes: given attributes, the defaults of id and
\* date_added, NULL elsewhere.
InsertRow(o, i, now) ==
    [f \in Fields |->
        CASE f = "id" -> PyUuid(i)
          [] f = "date_added" /\ o.attrs[f] = Unset -> PyDt(now)
          [] o.attrs[f] = Unset -> None
          [] OTHER -> ColValue(f, o.attrs[f])]

\* A persistent instance has a net change when a loaded attribute differs
\* from its row.
Changed(o, row) ==
    {f \in Fields : o.attrs[f] # Unset /\ ColValue(f, o.attrs[f]) # row[f]}

\* The row an UPDATE writes: the changed attributes, and date_updated from
\* its onupdate default unless the caller set it.
UpdateRow(o, row, now) ==
    [f \in Fields |->
        CASE f \in Changed(o, row) -> ColValue(f, o.attrs[f])
          [] f = "date_updated" -> PyDt(now)
          [] OTHER -> row[f]]

Pending(os) == {h \in Handles : os[h].st = "pending"}
ToDelete(os) == {h \in Handles : os[h].st = "todelete"}

\* uuid4 never repeats: the identifiers a flush may draw for the pending
\* instances that have none.
Used(os, t, s) ==
    DOMAIN t \cup DOMAIN s \cup {os[h].key : h \in Handles}
        \cup {os[h].attrs["id"][2] : h \in {x \in Handles : os[x].attrs["id"] # Unset}}
GenChoices(os, t, s) ==
    {g \in [Handles -> Ids \cup {0}] :
        /\ \A h \in Handles :
            IF h \in Pending(os) /\ os[h].attrs["id"] = Unset
            THEN g[h] \in Ids \ Used(os, t, s)
            ELSE g[h] = 0
        /\ \A h1, h2 \in Handles : (g[h1] # 0 /\ g[h1] = g[h2]) => h1 = h2}

\* session.flush(): the unit of work.  DELETEs of the instances marked for
\* deletion, INSERTs of the pending ones, UPDATEs of the persistent ones with
\* a net change.  An INSERT whose identifier is already a row, or two INSERTs
\* with one identifier, violate the primary key: IntegrityError.  (An INSERT
\* on the identifier of an instance deleted by the same flush is written by
\* SQLAlchemy as an UPDATE of that row; it is taken here as DELETE, INSERT.)
\* An instance of the session whose identity an inserted instance takes is
\* replaced in the identity map: it is no longer in the session.
FlushConflict(os, t, gen) ==
    LET kept == DOMAIN t \ {os[h].key : h \in ToDelete(os)}
    IN  \E p \in Pending(os) :
            \/ InsertId(os[p], gen[p]) \in kept
            \/ \E q \in Pending(os) \ {p} :
                   InsertId(os[q], gen[q]) = InsertId(os[p], gen[p])

FlushTx(os, t, now, gen) ==
    LET kept == DOMAIN t \ {os[h].key : h \in ToDelete(os)}
        ins == {InsertId(os[p], gen[p]) : p \in Pending(os)}
        owner(i) == CHOOSE p \in Pending(os) : InsertId(os[p], gen[p]) = i
        dirty(i) == {h \in Handles : os[h].st = "persistent" /\ os[h].key = i
                                     /\ Changed(os[h], t[i]) # {}}
    IN  [i \in kept \cup ins |->
            IF i \in ins THEN InsertRow(os[owner(i)], i, now)
            ELSE IF dirty(i) # {}
            THEN UpdateRow(os[CHOOSE h \in dirty(i) : TRUE], t[i], now)
            ELSE t[i]]

FlushObjs(os, t, now, gen) ==
    [h \in Handles |->
        CASE os[h].st = "pending" ->
                [st |-> "persistent", key |-> InsertId(os[h], gen[h]), new |-> TRUE,
                 attrs |-> [f \in Fields |->
                    CASE f = "id" /\ os[h].attrs[f] = Unset -> PyUuid(gen[h])
                      [] f = "date_added" /\ os[h].attrs[f] = Unset -> PyDt(now)
                      [] OTHER -> os[h].attrs[f]]]
          [] os[h].st = "todelete" -> [os[h] EXCEPT !.st = "deleted"]
          [] os[h].st = "persistent"
                /\ \E p \in Pending(os) : InsertId(os[p], gen[p]) = os[h].key ->
                [os[h] EXCEPT !.st = "detached"]
          [] os[h].st = "persistent" /\ os[h].key \in DOMAIN t
                /\ Changed(os[h], t[os[h].key]) # {}
                /\ "date_updated" \notin Changed(os[h], t[os[h].key]) ->
                [os[h] EXCEPT !.attrs["date_updated"] = PyDt(now)]
          [] OTHER -> os[h]]

\* The end of a transaction that is rolled back: instances added or inserted
\* by it are expunged, the others are back in the session, expired.
RollbackObjs(os) ==
    [h \in Handles |->
        CASE os[h].st = "pending" -> [os[h] EXCEPT !.st = "transient"]
          [] InSession(os[h]) /\ os[h].new ->
                [os[h] EXCEPT !.st = "transient", !.key = 0, !.new = FALSE]
          [] InSession(os[h]) ->
                [os[h] EXCEPT !.st = "persistent", !.attrs = Expired]
          [] OTHER -> os[h]]

\* The end of a transaction that commits (expire_on_commit=False: the
\* attributes stay loaded).
CommitObjs(os) ==
    [h \in Handles |->
        CASE os[h].st = "deleted" -> [os[h] EXCEPT !.st = "detached", !.new = FALSE]
          [] OTHER -> [os[h] EXCEPT !.new = FALSE]]

\* The steps of a call at which the backend may raise an OperationalError:
\* "execute", "commit", "refresh" ("none": it does not).

\* session.flush() as a call makes it: what is raised ("none": nothing), and
\* the instances and the transaction after it.  A failed flush rolls the
\* transaction back.
Flush(os, t, s, now, gen) ==
    IF FlushConflict(os, t, gen)
    THEN [raised |-> "IntegrityError", objs |-> RollbackObjs(os), tx |-> s]
    ELSE [raised |-> "none", objs |-> FlushObjs(os, t, now, gen),
          tx |-> FlushTx(os, t, now, gen)]

\* A commit that ends the transaction without flushing what is staged.
Commit_SkipsFlush(os, t, s, now, gen, fail) ==
    [raised |-> "none", objs |-> os, tx |-> t, store |-> t]

\* await db.commit(): flush, then COMMIT.
Commit(os, t, s, now, gen, fail) ==
    LET fl == Flush(os, t, s, now, gen)
    IN  IF fl.raised # "none"
        THEN [raised |-> fl.raised, objs |-> fl.objs, tx |-> s, store |-> s]
        ELSE IF fail = "commit"
        THEN [raised |-> "OperationalError", objs |-> RollbackObjs(fl.objs),
              tx |-> s, store |-> s]
        ELSE [raised |-> "none", objs |-> CommitObjs(fl.objs),
              tx |-> fl.tx, store |-> fl.tx]

\* await db.refresh(db_obj): every column attribute is loaded again from the
\* instance's row; an instance without a row cannot be refreshed.
Refresh(os, t, h, fail) ==
    IF fail = "refresh"
    THEN [raised |-> "OperationalError", objs |-> os]
    ELSE IF os[h].st # "persistent" \/ os[h].key \notin DOMAIN t
    THEN [raised |-> "InvalidRequestError", objs |-> os]
    ELSE [raised |-> "none", objs |-> [os EXCEPT ![h].attrs = t[os[h].key]]]

\* ------------------------------------------------------------ DAOBase
\* Each operation is a function of the session (instances os, transaction t,
\* committed table s), its arguments and the environment's choices (now:
\* datetime.utcnow, gen: uuid4, fail: the step the backend fails at).  It
\* gives the session after the call, the backend exception raised inside it
\* ("none": nothing), the exception that reaches the caller and the value
\* returned.

RetNone == <<"none", 0>>
RetEntity(h, o) == <<"entity", h, o.attrs>>
RetEntities(hs) == <<"entities", hs>>
RetRaise == <<"raise", 0>>

Outcome(os, t, s, raised, exc, ret) ==
    [objs |-> os, tx |-> t, store |-> s, raised |-> raised, exc |-> exc, ret |-> ret]

\* What leaves a with self.catch_sqlalchemy_exception() block in which the
\* backend raised `raised`.
Caught(raised) ==
    IF raised = "none" THEN NoExc ELSE catch_sqlalchemy_exception(Raw(raised))

\* self.model(**obj_in_data): an instance with the given attributes set.
NewInstance(data) ==
    [st |-> "transient", key |-> 0, new |-> FALSE,
     attrs |-> [f \in Fields |-> IF f \in DOMAIN data THEN data[f] ELSE Unset]]

\* db.add(obj): "none", or the InvalidRequestError raised for an instance
\* that has been deleted.
AddRaises(o) == IF o.st \in {"deleted", "detached"} THEN "InvalidRequestError" ELSE "none"
Add(o) ==
    CASE o.st = "transient" -> [o EXCEPT !.st = "pending"]
      [] o.st = "todelete" -> [o EXCEPT !.st = "persistent"]
      [] OTHER -> o

\* A create that commits whatever the commit flag says.
create_AlwaysCommits(os, t, s, obj_in, commit, h, now, gen, fail) ==
    LET enc == jsonable_encoder(obj_in)
        os1 == [os EXCEPT ![h] = Add(NewInstance(enc.val))]
        c == Commit(os1, t, s, now, gen, fail)
    IN  IF enc.exc # NoExc
        THEN Outcome(os, t, s, enc.exc.type,
                     catch_sqlalchemy_exception(enc.exc), RetRaise)
        ELSE IF c.raised # "none"
        THEN Outcome([c.objs EXCEPT ![h] = FreeObj], c.tx, c.store,
                     c.raised, Caught(c.raised), RetRaise)
        ELSE Outcome(c.objs, c.tx, c.store, "none", NoExc, RetEntity(h, c.objs[h]))

\* DAOBase.create(db, obj_in=..., commit=...); h is the new instance.
create(os, t, s, obj_in, commit, h, now, gen, fail) ==
    LET enc == jsonable_encoder(obj_in)
        os1 == [os EXCEPT ![h] = Add(NewInstance(enc.val))]
        c == Commit(os1, t, s, now, gen, fail)
        r == Refresh(c.objs, c.tx, h, fail)
    IN  IF enc.exc # NoExc
        THEN Outcome(os, t, s, enc.exc.type,
                     catch_sqlalchemy_exception(enc.exc), RetRaise)
        ELSE IF ~commit
        THEN Outcome(os1, t, s, "none", NoExc, RetEntity(h, os1[h]))
        ELSE IF c.raised # "none"
        THEN Outcome([c.objs EXCEPT ![h] = FreeObj], c.tx, c.store,
                     c.raised, Caught(c.raised), RetRaise)
        ELSE IF r.raised # "none"
        THEN Outcome([r.objs EXCEPT ![h] = FreeObj], c.tx, c.store,
                     r.raised, Caught(r.raised), RetRaise)
        ELSE Outcome(r.objs, c.tx, c.store, "none", NoExc, RetEntity(h, r.objs[h]))

\* DAOBase.create_many(db, db_objects, commit): db_objects are instances the
\* caller built (data: their attributes, by handle); they are added as they
\* are, and the list is returned without a refresh.
create_many(os, t, s, data, commit, now, gen, fail) ==
    LET hs == DOMAIN data
        os1 == [h \in Handles |-> IF h \in hs THEN Add(NewInstance(data[h])) ELSE os[h]]
        c == Commit(os1, t, s, now, gen, fail)
    IN  IF ~commit
        THEN Outcome(os1, t, s, "none", NoExc, RetEntities(hs))
        ELSE IF c.raised # "none"
        THEN Outcome([h \in Handles |-> IF h \in hs THEN FreeObj ELSE c.objs[h]],
                     c.tx, c.store, c.raised, Caught(c.raised), RetRaise)
        ELSE Outcome(c.objs, c.tx, c.store, "none", NoExc, RetEntities(hs))

\* A payload that takes every field of a record, set or not.
UpdateData_IncludesUnset(obj_in) == obj_in.items

\* The payload of an update: a dict as it is, a record through
\* obj_in.dict(exclude_unset=True).
UpdateData(obj_in) ==
    IF obj_in.kind = "dict" THEN obj_in.items
    ELSE [k \in obj_in.set |-> obj_in.items[k]]

\* for field in obj_data: if field in update_data: setattr(...)
AppliedFields(o, obj_in) ==
    DOMAIN jsonable_encoder(Entity(o)).val \cap DOMAIN UpdateData(obj_in)
SetAttrs(o, obj_in) ==
    [o EXCEPT !.attrs = [f \in Fields |->
        IF f \in AppliedFields(o, obj_in) THEN UpdateData(obj_in)[f] ELSE o.attrs[f]]]

\* DAOBase.update(db, db_obj=h, obj_in=..., commit=...).
update(os, t, s, h, obj_in, commit, now, gen, fail) ==
    LET o1 == SetAttrs(os[h], obj_in)
        os1 == [os EXCEPT ![h] = o1]
        os2 == [os EXCEPT ![h] = Add(o1)]
        c == Commit(os2, t, s, now, gen, fail)
        r == Refresh(c.objs, c.tx, h, fail)
    IN  IF AddRaises(o1) # "none"
        THEN Outcome(os1, t, s, AddRaises(o1), Caught(AddRaises(o1)), RetRaise)
        ELSE IF ~commit
        THEN Outcome(os2, t, s, "none", NoExc, RetEntity(h, os2[h]))
        ELSE IF c.raised # "none"
        THEN Outcome(c.objs, c.tx, c.store, c.raised, Caught(c.raised), RetRaise)
        ELSE IF r.raised # "none"
        THEN Outcome(r.objs, c.tx, c.store, r.raised, Caught(r.raised), RetRaise)
        ELSE Outcome(r.objs, c.tx, c.store, "none", NoExc, RetEntity(h, r.objs[h]))

\* db.delete(obj): "none", or the InvalidRequestError raised for an instance
\* that is not persisted, or whose identity another instance of the session
\* holds.
DeleteRaises(os, h) ==
    IF \/ os[h].key = 0
       \/ /\ os[h].st \in {"deleted", "detached"}
          /\ \E g \in Handles \ {h} :
                os[g].key = os[h].key /\ os[g].st \in {"persistent", "todelete"}
    THEN "InvalidRequestError" ELSE "none"

\* DAOBase.delete(db, db_object=h, commit=...).  The value returned is the
\* one AsyncSession.delete returns, which is None.
delete(os, t, s, h, commit, now, gen, fail) ==
    LET os1 == [os EXCEPT ![h].st = "todelete"]
        c == Commit(os1, t, s, now, gen, fail)
    IN  IF DeleteRaises(os, h) # "none"
        THEN Outcome(os, t, s, DeleteRaises(os, h), Caught(DeleteRaises(os, h)), RetRaise)
        ELSE IF ~commit
        THEN Outcome(os1, t, s, "none", NoExc, RetNone)
        ELSE IF c.raised # "none"
        THEN Outcome(c.objs, c.tx, c.store, c.raised, Caught(c.raised), RetRaise)
        ELSE Outcome(c.objs, c.tx, c.store, "none", NoExc, RetNone)

\* DAOBase.execute(session, statement) of a SELECT: the session flushes
\* first (autoflush), then runs the statement; what is raised inside its
\* with block, and the session after it.
execute(os, t, s, now, gen, fail) ==
    LET fl == Flush(os, t, s, now, gen)
    IN  IF fl.raised # "none"
        THEN [raised |-> fl.raised, exc |-> Caught(fl.raised), objs |-> fl.objs, tx |-> fl.tx]
        ELSE IF fail = "execute"
        THEN [raised |-> "OperationalError", exc |-> Caught("OperationalError"),
              objs |-> fl.objs, tx |-> fl.tx]
        ELSE [raised |-> "none", exc |-> NoExc, objs |-> fl.objs, tx |-> fl.tx]

\* The instance a row is loaded into: the one of the session with that
\* identity, whose unloaded attributes are populated from the row, else a new
\* instance (in a handle the caller has free, else 0: an instance the caller
\* does not keep).
Holder(os, id) == {h \in Handles : os[h].st = "persistent" /\ os[h].key = id}
Loaded(os, id) ==
    IF Holder(os, id) # {} THEN CHOOSE h \in Holder(os, id) : TRUE
    ELSE IF \E h \in Handles : os[h].st = "free"
    THEN CHOOSE h \in Handles : os[h].st = "free"
    ELSE 0
LoadedObj(os, t, id) ==
    IF Holder(os, id) # {}
    THEN [os[Loaded(os, id)] EXCEPT !.attrs =
            [f \in Fields |-> IF @[f] = Unset THEN t[id][f] ELSE @[f]]]
    ELSE [st |-> "persistent", key |-> id, new |-> FALSE, attrs |-> t[id]]
Populate(os, t, id) ==
    IF Loaded(os, id) = 0 THEN os
    ELSE [os EXCEPT ![Loaded(os, id)] = LoadedObj(os, t, id)]

\* A get that asks for exactly one row: an empty result is an error.
get_RaisesWhenAbsent(os, t, s, id, now, gen, fail) ==
    LET e == execute(os, t, s, now, gen, fail)
    IN  IF e.raised # "none"
        THEN Outcome(e.objs, e.tx, s, e.raised, catch_sqlalchemy_exception(e.exc), RetRaise)
        ELSE IF id \notin DOMAIN e.tx
        THEN Outcome(e.objs, e.tx, s, "NoResultFound", Caught("NoResultFound"), RetRaise)
        ELSE Outcome(Populate(e.objs, e.tx, id), e.tx, s, "none", NoExc,
                     RetEntity(Loaded(e.objs, id), LoadedObj(e.objs, e.tx, id)))

\* DAOBase.get(db, id): select(model).where(model.id == id), first row or
\* None.  The with block of get encloses the one of execute.
get(os, t, s, id, now, gen, fail) ==
    LET e == execute(os, t, s, now, gen, fail)
    IN  IF e.raised # "none"
        THEN Outcome(e.objs, e.tx, s, e.raised, catch_sqlalchemy_exception(e.exc), RetRaise)
        ELSE IF id \notin DOMAIN e.tx
        THEN Outcome(e.objs, e.tx, s, "none", NoExc, RetNone)
        ELSE Outcome(Populate(e.objs, e.tx, id), e.tx, s, "none", NoExc,
                     RetEntity(Loaded(e.objs, id), LoadedObj(e.objs, e.tx, id)))

\* ------------------------------------------------------------ statements
\* The entity type's metadata, as getattr(model, name) finds it: a column, a
\* relationship (its target and its lazy setting), a class attribute that is
\* no mapped attribute, or nothing (AttributeError).

MaxRows == 2    \* rows of the table a statement runs over
MaxLimit == 2   \* the largest skip and limit drawn

Missing == [kind |-> "missing", target |-> "", lazy |-> ""]
Column == [kind |-> "column", target |-> "", lazy |-> ""]
Relationship(target, lazy) == [kind |-> "relationship", target |-> target, lazy |-> lazy]
ClassAttr == [kind |-> "other", target |-> "", lazy |-> ""]

GetAttr(model, name) ==
    CASE model = "Account" /\ name \in Fields -> Column
      [] model = "Account" /\ name = "owner" -> Relationship("User", "select")
      [] model = "Account" /\ name = "bank" -> Relationship("Bank", "joined")
      [] model \in {"User", "Bank"} /\ name \in {"id", "name"} -> Column
      [] name \in {"registry", "metadata"} -> ClassAttr
      [] OTHER -> Missing

\* A Select: the entity selected, the joins and ORDER BY clauses added so
\* far, OFFSET and LIMIT (-1: none), and what is selected (the entity, or
\* count(*)).
NoLimit == -1
Select(model) ==
    [model |-> model, joins |-> << >>, order |-> << >>,
     offset |-> NoLimit, limit |-> NoLimit, cols |-> "entity"]

\* statement.join(field), statement.order_by(field.desc() / field.asc()).
Join(statement, field) == [statement EXCEPT !.joins = Append(@, field)]
OrderClause(statement, field, is_desc) ==
    [statement EXCEPT !.order = Append(@, <<field[1], field[2], is_desc>>)]

\* An accessor loop that joins every relationship, eagerly loaded or not.
RECURSIVE Walk_JoinsEager(_, _, _, _, _)
Walk_JoinsEager(model, accessors, i, statement, field) ==
    IF i > Len(accessors)
    THEN [valid |-> TRUE, statement |-> statement, field |-> field]
    ELSE LET a == GetAttr(model, accessors[i])
         IN  CASE a.kind \in {"missing", "other"} ->
                    [valid |-> FALSE, statement |-> statement, field |-> field]
               [] a.kind = "relationship" ->
                    Walk_JoinsEager(a.target, accessors, i + 1,
                                    Join(statement, <<model, accessors[i]>>),
                                    <<model, accessors[i]>>)
               [] OTHER ->
                    Walk_JoinsEager(model, accessors, i + 1, statement,
                                    <<model, accessors[i]>>)

\* The loop over the accessors of one ordering entry (lines 220-231): the
\* statement with the joins made so far, the last field found, and whether
\* every accessor resolved.
RECURSIVE Walk(_, _, _, _, _)
Walk(model, accessors, i, statement, field) ==
    IF i > Len(accessors)
    THEN [valid |-> TRUE, statement |-> statement, field |-> field]
    ELSE LET a == GetAttr(model, accessors[i])
         IN  CASE a.kind \in {"missing", "other"} ->
                    [valid |-> FALSE, statement |-> statement, field |-> field]
               [] a.kind = "relationship" ->
                    Walk(a.target, accessors, i + 1,
                         IF a.lazy # "joined"
                         THEN Join(statement, <<model, accessors[i]>>)
                         ELSE statement,
                         <<model, accessors[i]>>)
               [] OTHER ->
                    Walk(model, accessors, i + 1, statement, <<model, accessors[i]>>)

\* One entry of the ordering applied to the statement.
OrderEntry(model, statement, entry) ==
    LET accessors == entry[1]
        is_desc == entry[2]
        w == Walk(model, accessors, 1, statement, <<model, "">>)
    IN  IF Len(accessors) = 1
        THEN IF GetAttr(model, accessors[1]).kind \in {"missing", "other"}
             THEN statement
             ELSE OrderClause(statement, <<model, accessors[1]>>, is_desc)
        ELSE IF w.valid
             THEN OrderClause(w.statement, w.field, is_desc)
             ELSE w.statement

\* DAOBase.order_by(statement, ordering): the statement returned.  No
\* exception leaves the call: each AttributeError is caught inside it.
RECURSIVE order_by(_, _, _)
order_by(model, statement, ordering) ==
    IF ordering = << >> THEN statement
    ELSE order_by(model, OrderEntry(model, statement, Head(ordering)), Tail(ordering))

\* Whether every accessor of an entry names, in turn, a column or a
\* relationship of the entity reached so far.
RECURSIVE Resolves(_, _, _)
Resolves(model, accessors, i) ==
    IF i > Len(accessors) THEN TRUE
    ELSE LET a == GetAttr(model, accessors[i])
         IN  CASE a.kind \in {"missing", "other"} -> FALSE
               [] a.kind = "relationship" -> Resolves(a.target, accessors, i + 1)
               [] OTHER -> Resolves(model, accessors, i + 1)

\* ------------------------------------------------------------- execution
\* A table is the sequence of its rows in storage order; a row of accounts
\* carries its identifier, its name and the identifier of its owner (0: NULL).

RECURSIVE SelectRows(_, _, _)
SelectRows(rows, i, joins) ==
    IF i > Len(rows) THEN << >>
    ELSE (IF \A j \in 1..Len(joins) : joins[j] = <<"Account", "owner">> => rows[i].owner # 0
          THEN <<rows[i]>> ELSE << >>) \o SelectRows(rows, i + 1, joins)

\* The rows FROM ... JOIN ... gives: an inner join on owner keeps the rows
\* that have one.
FromRows(rows, statement) == SelectRows(rows, 1, statement.joins)

\* A page that runs one row past its limit.
Paginate_Overlap(rows, offset, limit) ==
    LET first == IF offset = NoLimit THEN 1 ELSE offset + 1
        n == Len(rows)
        lastRow == IF limit = NoLimit THEN n
                   ELSE IF first + limit < n THEN first + limit ELSE n
    IN  SubSeq(rows, first, lastRow)

\* OFFSET and LIMIT over a sequence of rows.
Paginate(rows, offset, limit) ==
    LET first == IF offset = NoLimit THEN 1 ELSE offset + 1
        n == Len(rows)
        lastRow == IF limit = NoLimit THEN n
                   ELSE IF first + limit - 1 < n THEN first + limit - 1 ELSE n
    IN  SubSeq(rows, first, lastRow)

\* Result.unique(): the first occurrence of each entity.
RECURSIVE Unique(_)
Unique(rows) ==
    IF rows = << >> THEN << >>
    ELSE LET init == Unique(SubSeq(rows, 1, Len(rows) - 1))
             x == rows[Len(rows)]
         IN  IF \E j \in 1..Len(init) : init[j].id = x.id THEN init ELSE Append(init, x)

\* session.execute(statement) of a statement that selects the entity: the
\* rows, in storage order when the statement has no ORDER BY.
FetchRows(rows, statement) ==
    Paginate(FromRows(rows, statement), statement.offset, statement.limit)

\* session.execute(statement) of a statement that selects count(*): "none"
\* and the rows of the result, or the error of the database.  count(*) with
\* an ORDER BY on a column is rejected; OFFSET and LIMIT apply to the one row
\* the aggregate yields.
CountRaises(statement) ==
    IF statement.order # << >> THEN "ProgrammingError" ELSE "none"
CountRows(rows, statement) ==
    Paginate(<<Len(FromRows(rows, statement))>>, statement.offset, statement.limit)

QOutcome(raised, exc, ret) == [raised |-> raised, exc |-> exc, ret |-> ret]

\* statement.with_only_columns([count()], maintain_column_froms=True)
\*          .order_by(None)
CountStatement(statement) == [statement EXCEPT !.cols = "count", !.order = << >>]

\* DAOBase.count(db, statement).  execute, with its own with block, runs
\* inside the with block of count; results.scalar_one() is called after it,
\* and raises NoResultFound when the result has no row.
count(rows, statement, fail) ==
    LET cs == CountStatement(statement)
        raised == IF fail = "execute" THEN "OperationalError" ELSE CountRaises(cs)
        result == CountRows(rows, cs)
    IN  IF raised # "none"
        THEN QOutcome(raised, catch_sqlalchemy_exception(Caught(raised)), RetRaise)
        ELSE IF result = << >>
        THEN QOutcome("NoResultFound", Raw("NoResultFound"), RetRaise)
        ELSE QOutcome("none", NoExc, <<"int", result[1]>>)

\* DAOBase.get_multi(db, skip=..., limit=...).  The signature takes no other
\* keyword: a call that passes filters raises TypeError.  count and the
\* paginated fetch are gathered inside one with block.
get_multi(rows, skip, limit, filters, fail) ==
    LET statement == Select("Account")
        paginated == [statement EXCEPT !.offset = skip, !.limit = limit]
        c == count(rows, statement, fail)
    IN  IF filters # {}
        THEN QOutcome("TypeError", Raw("TypeError"), RetRaise)
        ELSE IF c.raised # "none"
        THEN QOutcome(c.raised, catch_sqlalchemy_exception(c.exc), RetRaise)
        ELSE QOutcome("none", NoExc,
                      <<"page", Unique(FetchRows(rows, paginated)), c.ret[2]>>)

\* ------------------------------------------------------------ the caller
\* The inputs the caller draws from.

Items(keys, name, balance) ==
    [k \in keys |->
        CASE k = "id" -> PyUuid(1)
          [] k = "name" -> name
          [] k = "balance" -> balance
          [] OTHER -> PyStr("x")]

\* CreateSpec: a mapping, with or without the optional balance and
\* identifier, or a pydantic record of the same fields.
CreateMappings ==
    { Mapping(Items({"name", "balance"}, PyStr("A"), PyInt(0))),
      Mapping(Items({"name"}, PyStr("A"), PyInt(0))),
      Mapping(Items({"id", "name", "balance"}, PyStr("A"), PyInt(0))) }
CreateRecords ==
    { Record(Items({"name", "balance"}, PyStr("A"), PyInt(0)), {"name", "balance"}) }
CreateSpecs == CreateMappings \cup CreateRecords

\* UpdateSpec: the empty mapping, mappings of one key (a column, or a key
\* that names no column), and a record whose field balance alone is set.
UpdateSpecs ==
    { Mapping(Items({}, PyStr("B"), PyInt(1))),
      Mapping(Items({"balance"}, PyStr("B"), PyInt(1))),
      Mapping(Items({"nickname"}, PyStr("B"), PyInt(1))),
      Record(Items({"name", "balance"}, PyStr("B"), PyInt(1)), {"balance"}) }

FreeHandles == {h \in Handles : objs[h].st = "free"}
NextHandle == CHOOSE h \in FreeHandles : \A g \in FreeHandles : h <= g

\* The instances a caller hands to create_many: the next new instance, or
\* every instance it can still build.
ManyData ==
    { [h \in hs |-> Items({"name"}, PyStr("A"), PyInt(0))] :
        hs \in {{NextHandle}, FreeHandles} }

\* The last call as the caller saw it, and the instances the session had
\* pending and marked for deletion when the call was made.
Call(op, commit, h, id, out) ==
    [op |-> op, commit |-> commit, h |-> h, id |-> id,
     raised |-> out.raised, exc |-> out.exc, ret |-> out.ret,
     staged |-> [pending |-> Pending(objs), todelete |-> ToDelete(objs)]]

\* The steps a call with this commit flag can fail at.
WriteFails(commit) == IF commit THEN {"none", "commit", "refresh"} ELSE {"none"}
ManyFails(commit) == IF commit THEN {"none", "commit"} ELSE {"none"}
ReadFails == {"none", "execute"}

\* The session with instance h replaced by o, as GenChoices reads it.
With(h, o) == [objs EXCEPT ![h] = o]

Apply(out) ==
    /\ objs' = out.objs
    /\ tx' = out.tx
    /\ store' = out.store
    /\ UNCHANGED <<queryVars, auxVars>>

NoRows == [i \in {} |-> Expired]

\* The parts of the state a specification does not move.
GatherIdle == [pc |-> "idle"]
HookIdle ==
    [pc |-> "idle", status_code |-> 0, ops |-> << >>, registered |-> FALSE,
     exc |-> NoExc, leaked |-> 0]
MwIdle ==
    [pc |-> "idle", scope_type |-> "http", script |-> << >>, ends |-> "returns",
     at |-> 0, sent |-> << >>, timed |-> FALSE, exc |-> NoExc]
AuxInit ==
    /\ gather = GatherIdle
    /\ coder = EncIdle
    /\ hook = HookIdle
    /\ mw = MwIdle

\* The last query call as the caller saw it: its arguments, what was raised
\* inside it, the exception that reached the caller and the value returned.
QCall(op, args, out) ==
    [op |-> op, args |-> args, raised |-> out.raised, exc |-> out.exc, ret |-> out.ret]

Init ==
    /\ store = NoRows
    /\ tx = NoRows
    /\ objs = [h \in Handles |-> FreeObj]
    /\ last = Call("init", FALSE, 0, 0,
                   Outcome(objs, tx, store, "none", NoExc, RetNone))
    /\ table = << >>
    /\ stmt = Select("Account")
    /\ qlast = QCall("init", << >>, QOutcome("none", NoExc, RetNone))
    /\ AuxInit

CreateStep ==
    \E obj_in \in CreateSpecs, commit \in BOOLEAN :
    \E fail \in WriteFails(commit), now \in Times :
        /\ FreeHandles # {}
        /\ \E gen \in GenChoices(With(NextHandle, Add(NewInstance(EncodeDict(obj_in.items)))),
                                 tx, store) :
             LET out == create(objs, tx, store, obj_in, commit, NextHandle, now, gen, fail)
             IN  /\ Apply(out)
                 /\ last' = Call("create", commit, NextHandle, 0, out)

CreateManyStep ==
    \E commit \in BOOLEAN :
    \E fail \in ManyFails(commit), now \in Times :
        /\ FreeHandles # {}
        /\ \E data \in ManyData :
           \E gen \in GenChoices([h \in Handles |->
                                    IF h \in DOMAIN data THEN Add(NewInstance(data[h]))
                                    ELSE objs[h]], tx, store) :
             LET out == create_many(objs, tx, store, data, commit, now, gen, fail)
             IN  /\ Apply(out)
                 /\ last' = Call("create_many", commit, 0, 0, out)

UpdateStep ==
    \E h \in Handles, obj_in \in UpdateSpecs, commit \in BOOLEAN :
    \E fail \in WriteFails(commit), now \in Times :
        /\ objs[h].st # "free"
        /\ \E gen \in GenChoices(With(h, Add(SetAttrs(objs[h], obj_in))), tx, store) :
             LET out == update(objs, tx, store, h, obj_in, commit, now, gen, fail)
             IN  /\ Apply(out)
                 /\ last' = Call("update", commit, h, 0, out)

DeleteStep ==
    \E h \in Handles, commit \in BOOLEAN :
    \E fail \in ManyFails(commit), now \in Times :
        /\ objs[h].st # "free"
        /\ \E gen \in GenChoices(objs, tx, store) :
             LET out == delete(objs, tx, store, h, commit, now, gen, fail)
             IN  /\ Apply(out)
                 /\ last' = Call("delete", commit, h, 0, out)

GetStep ==
    \E id \in Ids, fail \in ReadFails, now \in Times :
    \E gen \in GenChoices(objs, tx, store) :
        LET out == get(objs, tx, store, id, now, gen, fail)
        IN  /\ Apply(out)
            /\ last' = Call("get", FALSE, 0, id, out)

\* The caller's own await db.commit() and await db.rollback() (as
\* session_after_request issues them).
CallerCommit ==
    \E fail \in ManyFails(TRUE), now \in Times :
    \E gen \in GenChoices(objs, tx, store) :
        LET c == Commit(objs, tx, store, now, gen, fail)
        IN  /\ Apply(c)
            /\ last' = Call("commit", TRUE, 0, 0,
                            Outcome(c.objs, c.tx, c.store, c.raised, Raw(c.raised), RetNone))

\* The caller drops its reference to an instance.  The session keeps an
\* instance alive only while it has work to flush for it.
Clean(o, t) ==
    \/ o.st \in {"transient", "detached"}
    \/ o.st = "persistent" /\ o.key \in DOMAIN t /\ Changed(o, t[o.key]) = {}
Forget ==
    \E h \in Handles :
        /\ objs[h].st # "free"
        /\ Clean(objs[h], tx)
        /\ objs' = [objs EXCEPT ![h] = FreeObj]
        /\ UNCHANGED <<tx, store>>
        /\ UNCHANGED <<queryVars, auxVars>>
        /\ last' = Call("forget", FALSE, h, 0,
                        Outcome(objs, tx, store, "none", NoExc, RetNone))

CallerRollback ==
    /\ objs' = RollbackObjs(objs)
    /\ tx' = store
    /\ store' = store
    /\ UNCHANGED <<queryVars, auxVars>>
    /\ last' = Call("rollback", FALSE, 0, 0,
                    Outcome(objs, tx, store, "none", NoExc, RetNone))

Next ==
    \/ CreateStep
    \/ CreateManyStep
    \/ UpdateStep
    \/ DeleteStep
    \/ GetStep
    \/ CallerCommit
    \/ CallerRollback
    \/ Forget

Spec == Init /\ [][Next]_vars

\* ------------------------------------------------- the caller of queries
\* The tables a statement runs over: row i has identifier i, a name and an
\* owner (0: none).
AccountRow(i, name, owner) == [id |-> i, name |-> name, owner |-> owner]
RowChoices(i) == {AccountRow(i, n, o) : n \in {"A", "B"}, o \in {0, 1}}
Tables ==
    UNION { {t \in [1..n -> UNION {RowChoices(i) : i \in 1..n}] :
                \A i \in 1..n : t[i] \in RowChoices(i)} : n \in 0..MaxRows }

\* The ordering entries a caller passes: (accessors, is_desc).  A column, a
\* name the entity does not have, a column of a lazily loaded and of an
\* eagerly loaded relationship, a missing column behind a relationship, and
\* a class attribute that is no mapped attribute.
Entries ==
    { <<<<"name">>, FALSE>>,
      <<<<"nope">>, TRUE>>,
      <<<<"owner", "name">>, TRUE>>,
      <<<<"bank", "name">>, FALSE>>,
      <<<<"owner", "nope">>, FALSE>>,
      <<<<"registry", "name">>, FALSE>> }
Orderings == {<<e>> : e \in Entries} \cup {<<e, f>> : e \in Entries, f \in {<<<<"name">>, FALSE>>}}

Skips == 0..MaxLimit
Limits == 0..MaxLimit
Filters == {{}, {<<"name", "A">>}}

InitQ ==
    /\ store = NoRows
    /\ tx = NoRows
    /\ objs = [h \in Handles |-> FreeObj]
    /\ last = Call("init", FALSE, 0, 0,
                   Outcome(objs, tx, store, "none", NoExc, RetNone))
    /\ table \in Tables
    /\ stmt = Select("Account")
    /\ qlast = QCall("init", << >>, QOutcome("none", NoExc, RetNone))
    /\ AuxInit

\* statement = select(self.model)
NewStatement ==
    /\ stmt' = Select("Account")
    /\ qlast' = QCall("select", << >>, QOutcome("none", NoExc, RetNone))
    /\ UNCHANGED <<table, crudVars, auxVars>>

\* statement = dao.order_by(statement, ordering), on a statement that has
\* no clause yet.
OrderByStep ==
    \E ordering \in Orderings :
        /\ stmt.order = << >> /\ stmt.joins = << >>
        /\ stmt' = order_by(stmt.model, stmt, ordering)
        /\ qlast' = QCall("order_by", <<ordering, stmt>>, QOutcome("none", NoExc, RetNone))
        /\ UNCHANGED <<table, crudVars, auxVars>>

\* statement = statement.offset(skip).limit(limit)
PaginateStep ==
    \E skip \in Skips, limit \in Limits :
        /\ stmt' = [stmt EXCEPT !.offset = skip, !.limit = limit]
        /\ qlast' = QCall("paginate", << >>, QOutcome("none", NoExc, RetNone))
        /\ UNCHANGED <<table, crudVars, auxVars>>

CountStep ==
    \E fail \in ReadFails :
        /\ qlast' = QCall("count", <<stmt>>, count(table, stmt, fail))
        /\ UNCHANGED <<table, stmt, crudVars, auxVars>>

GetMultiStep ==
    \E skip \in Skips, limit \in Limits, filters \in Filters, fail \in ReadFails :
        /\ qlast' = QCall("get_multi", <<skip, limit, filters>>,
                          get_multi(table, skip, limit, filters, fail))
        /\ UNCHANGED <<table, stmt, crudVars, auxVars>>

NextQ ==
    \/ NewStatement
    \/ OrderByStep
    \/ PaginateStep
    \/ CountStep
    \/ GetMultiStep

SpecQ == InitQ /\ [][NextQ]_vars

\* ------------------------------------------------------------ properties
\* The calls a caller can make from a state, with the choices the
\* environment has for each.

DaoOps == {"create", "create_many", "update", "delete", "get"}
NoGen == [h \in Handles |-> 0]
CreateGens(obj_in) ==
    GenChoices(With(NextHandle, Add(NewInstance(EncodeDict(obj_in.items)))), tx, store)
UpdateGens(h, obj_in) == GenChoices(With(h, Add(SetAttrs(objs[h], obj_in))), tx, store)

\* The value reading attribute f of an instance gives: the loaded value, else
\* the column of its row (an expired attribute is loaded on access), else
\* None.
Observed(o, t, f) ==
    IF o.attrs[f] # Unset THEN ColValue(f, o.attrs[f])
    ELSE IF InSession(o) /\ o.key \in DOMAIN t THEN t[o.key][f]
    ELSE None

\* C1: for every create spec, create(spec) with commit=true followed by
\* get(returned.id) returns an entity whose caller-supplied fields equal
\* those of the spec and whose identifier is the one create returned; the
\* backend does not fail and the spec collides with no stored row.
C1_CreateThenGet ==
    \A obj_in \in CreateSpecs, now \in Times :
        FreeHandles # {} =>
            \A gen \in CreateGens(obj_in) :
                LET out == create(objs, tx, store, obj_in, TRUE, NextHandle, now, gen, "none")
                    id == out.ret[3]["id"]
                    g == get(out.objs, out.tx, out.store, id[2], now, NoGen, "none")
                IN  out.raised \notin SQLAlchemyErrors =>
                        /\ out.exc = NoExc
                        /\ out.ret[1] = "entity"
                        /\ g.exc = NoExc
                        /\ g.ret[1] = "entity"
                        /\ g.ret[3]["id"] = id
                        /\ \A f \in DOMAIN obj_in.items : g.ret[3][f] = obj_in.items[f]

\* What holds of create followed by get when the spec is a plain mapping.
CreateMappingThenGet ==
    \A obj_in \in CreateMappings, now \in Times :
        FreeHandles # {} =>
            \A gen \in CreateGens(obj_in) :
                LET out == create(objs, tx, store, obj_in, TRUE, NextHandle, now, gen, "none")
                    id == out.ret[3]["id"]
                    g == get(out.objs, out.tx, out.store, id[2], now, NoGen, "none")
                IN  out.raised \notin SQLAlchemyErrors =>
                        /\ out.exc = NoExc
                        /\ out.ret[1] = "entity"
                        /\ g.exc = NoExc
                        /\ g.ret[1] = "entity"
                        /\ g.ret[3]["id"] = id
                        /\ \A f \in DOMAIN obj_in.items : g.ret[3][f] = obj_in.items[f]

\* The keys of the payload as the claim reads it: every key of a mapping,
\* the set fields of a record.
PayloadKeys(obj_in) == IF obj_in.kind = "dict" THEN DOMAIN obj_in.items ELSE obj_in.set
Managed == {"id", "date_added", "date_updated"}

C3_AbsentIsNone ==
    \A id \in Ids, now \in Times :
        \A gen \in GenChoices(objs, tx, store) :
            LET e == execute(objs, tx, store, now, gen, "none")
                g == get(objs, tx, store, id, now, gen, "none")
            IN  (e.raised = "none" /\ id \notin DOMAIN e.tx) =>
                    (g.ret = RetNone /\ g.exc = NoExc)
C3_DeletedIsAbsent ==
    (last.op = "delete" /\ last.commit /\ last.exc = NoExc) =>
        \/ /\ objs[last.h].key \notin DOMAIN tx \cup DOMAIN store
           /\ get(objs, tx, store, objs[last.h].key, 1, NoGen, "none").ret = RetNone
        \/ \E h \in Handles \ {last.h} :
              objs[h].st = "persistent" /\ objs[h].key = objs[last.h].key
C3_AbsentUntilCreated ==
    \A id \in Ids :
        (id \notin DOMAIN store /\ id \notin DOMAIN tx /\ id \in DOMAIN tx') =>
            \E h \in Handles : objs[h].st \in {"free", "transient", "pending"}
C3_GetAbsent ==
    /\ [](C3_AbsentIsNone /\ C3_DeletedIsAbsent)
    /\ [][C3_AbsentUntilCreated]_vars

\* After a committed delete, get of the identifier returned None.
C3_Witness ==
    /\ last.op = "get" /\ last.ret = RetNone /\ last.exc = NoExc
    /\ \E h \in Handles : objs[h].st = "detached" /\ objs[h].key = last.id

\* C4: a create, update or delete with commit=true that fails leaves the
\* committed table as it was; one that returns has committed everything it
\* staged and returns the entity as its row is after the commit.
Atomic(out, h) ==
    /\ out.exc # NoExc => out.store = store
    /\ out.exc = NoExc =>
        /\ out.store = out.tx
        /\ out.ret[1] = "entity"
        /\ out.objs[h].key \in DOMAIN out.store => out.ret[3] = out.store[out.objs[h].key]
C4_Atomic ==
    \A fail \in WriteFails(TRUE), now \in Times :
        /\ \A obj_in \in CreateMappings :
              FreeHandles # {} =>
                \A gen \in CreateGens(obj_in) :
                    Atomic(create(objs, tx, store, obj_in, TRUE, NextHandle, now, gen, fail),
                           NextHandle)
        /\ \A h \in Handles, obj_in \in UpdateSpecs :
              objs[h].st # "free" =>
                \A gen \in UpdateGens(h, obj_in) :
                    Atomic(update(objs, tx, store, h, obj_in, TRUE, now, gen, fail), h)
        /\ \A h \in Handles :
              objs[h].st # "free" =>
                \A gen \in GenChoices(objs, tx, store) :
                    Atomic(delete(objs, tx, store, h, TRUE, now, gen, fail), h)

\* C5: a create, create_many, update or delete call with commit=false (and a
\* get, which has no commit flag) leaves the committed table as it was.
C5_NoCommitFrame ==
    [][(last'.op \in DaoOps /\ ~last'.commit) => store' = store]_vars

\* An update with commit=false returned while the transaction holds rows the
\* committed table does not.
C5_Witness ==
    /\ last.op = "update" /\ ~last.commit /\ last.exc = NoExc
    /\ DOMAIN tx # DOMAIN store

\* What the caller must see for what the backend raised inside a call: a
\* conflict for an integrity violation, a store error of status 500 for any
\* other SQLAlchemy exception, nothing when nothing was raised.
Translated(raised, exc) ==
    CASE raised = "none" -> exc = NoExc
      [] raised = "IntegrityError" -> exc = DAOConflictException
      [] raised \in SQLAlchemyErrors ->
            exc.type = "DAOExceptionBase" /\ exc.status = 500 /\ exc.detail # ""
      [] OTHER -> exc.type \notin SQLAlchemyErrors

\* The part of C6 the CRUD operations keep.
CrudTranslated == last.op \in DaoOps => Translated(last.raised, last.exc)

\* C6: every SQLAlchemy exception raised while a DAO operation runs reaches
\* the caller as DAOConflictException (409) for an integrity violation and
\* as DAOExceptionBase (500, with a message) otherwise, never as itself.
C6_Translated ==
    /\ last.op \in DaoOps => Translated(last.raised, last.exc)
    /\ qlast.op \in {"count", "get_multi"} => Translated(qlast.raised, qlast.exc)

\* C7: order_by with an entry whose path does not resolve raises
\* UnresolvableOrderingField and returns no statement: the statement the
\* caller holds is the one it passed, without a new order clause or join.
Unresolvable(ordering) ==
    \E i \in 1..Len(ordering) : ~Resolves("Account", ordering[i][1], 1)
C7_UnresolvableFails ==
    (qlast.op = "order_by" /\ Unresolvable(qlast.args[1])) =>
        /\ qlast.exc.type = "UnresolvableOrderingField"
        /\ stmt = qlast.args[2]

\* C8: get_multi(skip, limit, filters) returns only rows that satisfy every
\* equality filter, and its total count is the number of rows of the table
\* that satisfy them, whatever skip and limit are.
Satisfies(row, filters) == \A p \in filters : row[p[1]] = p[2]
Matching(filters) == {i \in 1..Len(table) : Satisfies(table[i], filters)}
C8_FilteredPage ==
    \A skip \in Skips, limit \in Limits, filters \in Filters :
        LET r == get_multi(table, skip, limit, filters, "none")
        IN  /\ r.exc = NoExc
            /\ \A i \in 1..Len(r.ret[2]) : Satisfies(r.ret[2][i], filters)
            /\ r.ret[3] = Cardinality(Matching(filters))
            /\ r.ret[3] = Len(get_multi(table, 0, Len(table) + 1, filters, "none").ret[2])

\* What holds of get_multi when no filter is passed.
UnfilteredPage ==
    \A skip \in Skips, limit \in Limits :
        LET r == get_multi(table, skip, limit, {}, "none")
        IN  /\ r.exc = NoExc
            /\ \A i \in 1..Len(r.ret[2]) : \E j \in 1..Len(table) : r.ret[2][i] = table[j]
            /\ r.ret[3] = Len(table)
            /\ r.ret[3] = Len(get_multi(table, 0, Len(table) + 1, {}, "none").ret[2])

\* The pages get_multi(skip=k, limit=n) for k = skip, skip + n, ... up to
\* the end of the table, concatenated.
RECURSIVE Pages(_, _)
Pages(n, skip) ==
    IF skip >= Len(table) THEN << >>
    ELSE get_multi(table, skip, n, {}, "none").ret[2] \o Pages(n, skip + n)
FullResult == get_multi(table, 0, Len(table) + 1, {}, "none").ret[2]

C10_CountsAllRows ==
    (qlast.op = "count" /\ qlast.raised # "OperationalError") =>
        /\ qlast.exc = NoExc
        /\ qlast.ret = <<"int", Len(FromRows(table, qlast.args[1]))>>

\* The part of C10 the code keeps: the count of a statement without LIMIT
\* and OFFSET is its number of rows, whatever ORDER BY it carries.
CountIgnoresOrder ==
    (qlast.op = "count" /\ qlast.raised # "OperationalError"
        /\ qlast.args[1].offset = NoLimit /\ qlast.args[1].limit = NoLimit) =>
        /\ qlast.exc = NoExc
        /\ qlast.ret = <<"int", Len(FromRows(table, qlast.args[1]))>>

\* C11: a delete that returns gives back the entity that was passed in, with
\* commit=true and with commit=false.
C11_DeleteReturnsEntity ==
    (last.op = "delete" /\ last.exc = NoExc) =>
        (last.ret[1] = "entity" /\ last.ret[2] = last.h)

\* The entity a path has reached before its segment i, the joins the claim
\* asks for along the path, and the field its final segment names.
RECURSIVE ModelAt(_, _)
ModelAt(path, i) ==
    IF i = 1 THEN "Account"
    ELSE LET a == GetAttr(ModelAt(path, i - 1), path[i - 1])
         IN  IF a.kind = "relationship" THEN a.target ELSE ModelAt(path, i - 1)
RECURSIVE ExpectedJoins(_, _)
ExpectedJoins(path, i) ==
    IF i > Len(path) THEN << >>
    ELSE LET a == GetAttr(ModelAt(path, i), path[i])
         IN  (IF a.kind = "relationship" /\ a.lazy # "joined"
              THEN <<<<ModelAt(path, i), path[i]>>>> ELSE << >>)
             \o ExpectedJoins(path, i + 1)
ExpectedClause(entry) ==
    <<ModelAt(entry[1], Len(entry[1])), entry[1][Len(entry[1])], entry[2]>>
RECURSIVE AllJoins(_)
AllJoins(ordering) ==
    IF ordering = << >> THEN << >>
    ELSE ExpectedJoins(Head(ordering)[1], 1) \o AllJoins(Tail(ordering))

EagerNoJoin ==
    (qlast.op = "order_by" /\ qlast.args[1] = <<<<<<"bank", "name">>, FALSE>>>>) =>
        (stmt.joins = << >> /\ stmt.order = <<<<"Bank", "name", FALSE>>>>)

\* ------------------------------------------------------ get_multi, in steps
\* One get_multi call as the event loop runs it: asyncio.gather makes a task
\* of count(db, statement) and one of execute(db, paginated), in that order,
\* on the one session db.  A task is "ready", then "executing" (its
\* session.execute awaits the database), then "done" or "failed".  A
\* session.execute that starts while the other is still awaiting uses the
\* session and its connection concurrently: the driver either serves the two
\* in turn or raises InterfaceError (another operation is in progress).

Overlap == {"served", "InterfaceError"}

InitG ==
    /\ store = NoRows
    /\ tx = NoRows
    /\ objs = [h \in Handles |-> FreeObj]
    /\ last = Call("init", FALSE, 0, 0,
                   Outcome(objs, tx, store, "none", NoExc, RetNone))
    /\ table \in Tables
    /\ stmt = Select("Account")
    /\ qlast = QCall("init", << >>, QOutcome("none", NoExc, RetNone))
    /\ gather = GatherIdle
    /\ coder = EncIdle
    /\ hook = HookIdle
    /\ mw = MwIdle

GatherFrame == UNCHANGED <<crudVars, queryVars, coder, hook, mw>>

\* [count, results] = await asyncio.gather(self.count(db, statement),
\*                                         self.execute(db, paginated))
GatherCall ==
    \E skip \in Skips, limit \in Limits :
        /\ gather.pc = "idle"
        /\ gather' = [pc |-> "gathering", skip |-> skip, limit |-> limit,
                      count |-> "ready", fetch |-> "ready",
                      total |-> 0, rows |-> << >>,
                      raised |-> "none", exc |-> NoExc, ret |-> RetNone]
        /\ GatherFrame

\* The count task reaches session.execute first.
StartCount ==
    /\ gather.pc = "gathering" /\ gather.count = "ready"
    /\ gather' = [gather EXCEPT !.count = "executing"]
    /\ GatherFrame

\* The fetch task reaches session.execute: after the count task has started,
\* while it still awaits the database or after it is done.
StartFetch ==
    /\ gather.pc = "gathering" /\ gather.fetch = "ready" /\ gather.count # "ready"
    /\ \E o \in Overlap :
          IF gather.count = "executing" /\ o = "InterfaceError"
          THEN gather' = [gather EXCEPT !.fetch = "failed", !.raised = "InterfaceError"]
          ELSE gather' = [gather EXCEPT !.fetch = "executing"]
    /\ GatherFrame

\* The database answers the count: results.scalar_one().
FinishCount ==
    /\ gather.pc = "gathering" /\ gather.count = "executing"
    /\ gather' = [gather EXCEPT !.count = "done",
                    !.total = CountRows(table, CountStatement(Select("Account")))[1]]
    /\ GatherFrame

\* The database answers the paginated statement.
FinishFetch ==
    /\ gather.pc = "gathering" /\ gather.fetch = "executing"
    /\ gather' = [gather EXCEPT !.fetch = "done",
                    !.rows = FetchRows(table, [Select("Account") EXCEPT
                                 !.offset = gather.skip, !.limit = gather.limit])]
    /\ GatherFrame

\* Both tasks are done: the pair is returned.
GatherReturn ==
    /\ gather.pc = "gathering" /\ gather.count = "done" /\ gather.fetch = "done"
    /\ gather' = [gather EXCEPT !.pc = "returned",
                    !.ret = <<"page", Unique(gather.rows), gather.total>>]
    /\ GatherFrame

\* A task has failed: gather raises its exception into the with block of
\* get_multi, which translates it.
GatherRaise ==
    /\ gather.pc = "gathering" /\ gather.raised # "none"
    /\ gather' = [gather EXCEPT !.pc = "raised", !.ret = RetRaise,
                    !.exc = catch_sqlalchemy_exception(Caught(gather.raised))]
    /\ GatherFrame

\* The caller makes its next call.
GatherAgain ==
    /\ gather.pc \in {"returned", "raised"}
    /\ gather' = GatherIdle
    /\ GatherFrame

NextG ==
    \/ GatherCall
    \/ StartCount
    \/ StartFetch
    \/ FinishCount
    \/ FinishFetch
    \/ GatherReturn
    \/ GatherRaise
    \/ GatherAgain

SpecG == InitG /\ [][NextG]_vars

\* C13: whichever of the two reads of get_multi completes first, the call
\* returns the pair (entities, total_count) of the sequential get_multi, and
\* no interleaving of the two ends in an error.
C13_OrderIndependent ==
    gather.pc \in {"returned", "raised"} =>
        /\ gather.pc = "returned"
        /\ gather.ret = get_multi(table, gather.skip, gather.limit, {}, "none").ret

\* The part of C13 the code keeps: a gathered call that returns gives the
\* pair of the sequential get_multi, whichever read was answered first.
GatherReturnsSamePair ==
    gather.pc = "returned" =>
        gather.ret = get_multi(table, gather.skip, gather.limit, {}, "none").ret

\* ------------------------------------------------------- encoder, callers

EncKeys == {PyStr("name"), PyStr(SaState), PyInt(1), PyUuid(1), <<"uuidtext", 1>>}
EncLeaves == {PyStr("A"), None, PyUuid(1)}
EncNested == PyDict(<<<<PyStr("name"), PyStr("B")>>, <<PyStr("nickname"), None>>>>)
EncModel == PyModel("AccountCreate", <<<<PyStr("name"), PyStr("A")>>, <<PyStr("balance"), None>>>>)
EncDataclass == PyDataclass(<<<<PyStr("name"), PyStr("A")>>, <<PyStr("balance"), None>>>>)
EncValues == {PyStr("A"), None, EncNested, EncModel}
EncItems == EncKeys \X EncValues
EncMappings ==
    {PyDict(p) : p \in {q \in UNION {[1..n -> EncItems] : n \in 0..MaxPairs} :
                          \A i, j \in DOMAIN q : q[i][1] = q[j][1] => i = j}}
EncInputs ==
    EncMappings \cup EncLeaves
        \cup {EncModel, EncDataclass, PyList(<<PyInt(1), PyUuid(1)>>),
              PyList(<<EncNested, EncModel>>)}
Includes == {NotGiven, Given({PyStr("name"), PyUuid(1), <<"uuidtext", 1>>})}
Excludes == {NotGiven, Given({PyStr("name"), PyUuid(1)})}
Customs == {NoCustom, [k \in {"datetime"} |-> "caller_isoformat"]}

InitE ==
    /\ store = NoRows
    /\ tx = NoRows
    /\ objs = [h \in Handles |-> FreeObj]
    /\ last = Call("init", FALSE, 0, 0,
                   Outcome(objs, tx, store, "none", NoExc, RetNone))
    /\ table = << >>
    /\ stmt = Select("Account")
    /\ qlast = QCall("init", << >>, QOutcome("none", NoExc, RetNone))
    /\ gather = GatherIdle
    /\ coder = EncIdle
    /\ hook = HookIdle
    /\ mw = MwIdle

\* jsonable_encoder(obj, include=..., exclude=..., exclude_none=...,
\* custom_encoder=...): what the caller gets, and json_encoders after it.
EncodeStep ==
    /\ coder.pc = "idle"
    /\ \E obj \in EncInputs, include \in Includes, exclude \in Excludes,
          exclude_none \in BOOLEAN, custom_encoder \in Customs :
           LET r == encode(obj, include, exclude, exclude_none, custom_encoder,
                           coder.json_encoders)
           IN coder' = [pc |-> "called",
                        json_encoders |-> r.cfg,
                        registry |-> coder.registry,
                        before |-> coder.json_encoders,
                        obj |-> obj, include |-> include, exclude |-> exclude,
                        exclude_none |-> exclude_none,
                        custom_encoder |-> custom_encoder,
                        exc |-> r.exc, val |-> r.val]
    /\ UNCHANGED <<crudVars, queryVars, gather, hook, mw>>

\* The caller makes its next call; the registries stay as the last call
\* left them.
EncodeAgain ==
    /\ coder.pc = "called"
    /\ coder' = [pc |-> "idle", json_encoders |-> coder.json_encoders,
                 registry |-> coder.registry]
    /\ UNCHANGED <<crudVars, queryVars, gather, hook, mw>>

NextE ==
    \/ EncodeStep
    \/ EncodeAgain

SpecE == InitE /\ [][NextE]_vars

\* C14: encoding a structured record (with a declared schema, or a
\* dataclass) raises nothing and returns the encoding of its field mapping.
C14_RecordEncodes ==
    (coder.pc = "called" /\ coder.obj[1] \in {"BaseModel", "dataclass"}) =>
        /\ coder.exc = NoExc
        /\ LET pairs == IF coder.obj[1] = "BaseModel" THEN coder.obj[2].pairs
                        ELSE coder.obj[2]
           IN coder.val = dict_encoder(pairs, coder.include, coder.exclude,
                                       coder.exclude_none, coder.custom_encoder,
                                       coder.before).val

\* What the code does for every structured record: it raises, TypeError for
\* a record with a schema and UnboundLocalError for a dataclass.
RecordRaises ==
    (coder.pc = "called" /\ coder.obj[1] \in {"BaseModel", "dataclass"}) =>
        coder.exc.type = (IF coder.obj[1] = "BaseModel" THEN "TypeError"
                          ELSE "UnboundLocalError")


\* The items of the mapping of the last call that pass the filters, in
\* input order.
KeptItems ==
    SelectSeq(coder.obj[2], LAMBDA p :
        /\ ~(p[1][1] = "str" /\ StartsWithSa(p[1][2]))
        /\ (coder.include.given => p[1] \in coder.include.keys)
        /\ (coder.exclude.given => p[1] \notin coder.exclude.keys)
        /\ (coder.exclude_none => p[2] # None))

\* The entries of s at the indices idx, in order.
Pick(s, idx) ==
    [n \in 1..Cardinality(idx) |->
        s[CHOOSE i \in idx : Cardinality({j \in idx : j < i}) = n - 1]]

\* The encoded keys of the kept items, and the first occurrence of each.
KeptKeys == [i \in DOMAIN KeptItems |-> EncodeValue(KeptItems[i][1])]
FirstKeys ==
    Pick(KeptKeys, {i \in DOMAIN KeptKeys : \A j \in 1..(i - 1) : KeptKeys[j] # KeptKeys[i]})

OutKeys == [i \in DOMAIN coder.val[2] |-> coder.val[2][i][1]]

MappingReturned ==
    coder.pc = "called" /\ coder.obj[1] = "dict" /\ coder.exc = NoExc

\* C15 as stated: a mapping call that returns has exactly one entry, in
\* input order, for each input key that passes the filters (inside include
\* when given, not inside exclude, not starting with "_sa", value not null
\* under exclude_none), and no other entry.
C15_OneEntryPerKey ==
    MappingReturned => OutKeys = KeptKeys

\* C15, amended: a mapping call that returns has one entry per distinct
\* encoded key of the input keys that pass the filters, in input order of
\* first occurrence, holding the encoded value of the last passing item with
\* that encoded key, and no other entry; when the encodings of the passing
\* keys are distinct this is exactly one entry per passing key.
C15_OneEntryPerEncodedKey ==
    MappingReturned =>
        /\ OutKeys = FirstKeys
        /\ \A i \in DOMAIN coder.val[2] :
              LET j == CHOOSE n \in DOMAIN KeptKeys :
                          /\ KeptKeys[n] = OutKeys[i]
                          /\ \A m \in DOMAIN KeptKeys : KeptKeys[m] = OutKeys[i] => m <= n
              IN coder.val[2][i][2] =
                    encode(KeptItems[j][2], coder.include, coder.exclude,
                           coder.exclude_none, coder.custom_encoder, coder.before).val
        /\ (\A i, j \in DOMAIN KeptKeys : KeptKeys[i] = KeptKeys[j] => i = j)
              => Len(coder.val[2]) = Len(KeptItems)

\* A mapping of three items was encoded: one item was dropped by a filter
\* and the two others are in the output, in input order.
C15_Witness ==
    /\ MappingReturned
    /\ Len(coder.obj[2]) = 3
    /\ Len(KeptItems) = 2
    /\ KeptKeys[1] # KeptKeys[2]
    /\ OutKeys = KeptKeys
    /\ coder.exclude.given

\* Two passing keys with the same encoding were encoded into one entry.
C15_Collision ==
    /\ MappingReturned
    /\ Len(KeptItems) = 2
    /\ Len(coder.val[2]) = 1

\* C16: a call of the encoder, returning or raising, leaves the global
\* converter registry and json_encoders of every schema type as they were.
C16_NoSideEffects ==
    coder.pc = "called" =>
        /\ coder.registry = ENCODERS_BY_TYPE
        /\ coder.json_encoders = coder.before

\* What holds of C16: the global registry is never written, and a call
\* without custom encoders writes nothing.
RegistryReadOnly ==
    /\ coder.registry = ENCODERS_BY_TYPE
    /\ (coder.pc = "called" /\ coder.custom_encoder = NoCustom)
          => coder.json_encoders = coder.before


\* The entities a statement selects, as a set.
Selected(rows, statement) ==
    LET r == FetchRows(rows, statement) IN {r[i] : i \in DOMAIN r}

\* C17: order_by changes only the order: for every statement and ordering
\* (paths through relationships and entries that do not resolve included)
\* the statement order_by returns selects the same set of entities as the
\* statement it was given, and the count of the two is the same.
C17_OrderOnly ==
    (qlast.op = "order_by") =>
        /\ Selected(table, stmt) = Selected(table, qlast.args[2])
        /\ Len(FromRows(table, CountStatement(stmt)))
              = Len(FromRows(table, CountStatement(qlast.args[2])))

\* What holds of C17: an ordering that adds no join (columns of the entity,
\* paths through eagerly joined relationships) keeps the selected set.
NoJoinKeepsRows ==
    (qlast.op = "order_by" /\ stmt.joins = << >>) =>
        Selected(table, stmt) = Selected(table, qlast.args[2])


\* C18: a create, update, delete or create_many with commit=true that
\* returns has committed every change staged on the session before it, those
\* of earlier calls with commit=false included: the instances that were
\* pending have their rows in the committed table, the rows of the instances
\* that were marked for deletion are gone from it (unless the same commit
\* inserts an instance with that identifier, or the call is an update of the
\* marked instance itself), and the transaction holds nothing the committed
\* table does not.
CommitOps == {"create", "create_many", "update", "delete"}
C18_WitnessDelete ==
    /\ last.op = "delete" /\ last.commit /\ last.exc = NoExc
    /\ last.staged.todelete # {}

\* ------------------------------------------------- session_after_request
\* core/db/deps.py.  One run of the hook, from await to await: the calls it
\* made on the scoped session (ops), whether the session of the task is still
\* in the registry of AsyncScopedSession, and how it ended.  leaked counts
\* the sessions earlier runs left in the registry.

MaxLeaked == 3
StatusCodes == {199, 200, 204, 299, 300, 404, 500}
HookFails == {"none", "OperationalError"}

InitH ==
    /\ store = NoRows
    /\ tx = NoRows
    /\ objs = [h \in Handles |-> FreeObj]
    /\ last = Call("init", FALSE, 0, 0,
                   Outcome(objs, tx, store, "none", NoExc, RetNone))
    /\ table = << >>
    /\ stmt = Select("Account")
    /\ qlast = QCall("init", << >>, QOutcome("none", NoExc, RetNone))
    /\ gather = GatherIdle
    /\ coder = EncIdle
    /\ hook = HookIdle
    /\ mw = MwIdle

HookFrame == UNCHANGED <<crudVars, queryVars, gather, coder, mw>>

\* The framework calls the hook with the response of a request whose task
\* used the scoped session.
HookCall ==
    /\ hook.pc = "idle"
    /\ \E status_code \in StatusCodes :
          hook' = [hook EXCEPT !.pc = "called", !.status_code = status_code,
                     !.ops = << >>, !.registered = TRUE, !.exc = NoExc]
    /\ HookFrame

\* if 200 <= response.status_code < 300: await AsyncScopedSession.commit()
HookCommit ==
    /\ hook.pc = "called"
    /\ 200 <= hook.status_code /\ hook.status_code < 300
    /\ \E fail \in HookFails :
          hook' = [hook EXCEPT !.ops = Append(@, "commit"),
                     !.pc = IF fail = "none" THEN "remove" ELSE "raised",
                     !.exc = IF fail = "none" THEN NoExc ELSE Raw(fail)]
    /\ HookFrame

\* else: await AsyncScopedSession.rollback()
HookRollback ==
    /\ hook.pc = "called"
    /\ ~(200 <= hook.status_code /\ hook.status_code < 300)
    /\ \E fail \in HookFails :
          hook' = [hook EXCEPT !.ops = Append(@, "rollback"),
                     !.pc = IF fail = "none" THEN "remove" ELSE "raised",
                     !.exc = IF fail = "none" THEN NoExc ELSE Raw(fail)]
    /\ HookFrame

\* await AsyncScopedSession.remove(); return response
HookRemove ==
    /\ hook.pc = "remove"
    /\ hook' = [hook EXCEPT !.ops = Append(@, "remove"), !.registered = FALSE,
                  !.pc = "returned"]
    /\ HookFrame

\* The task of the request ends; the next request runs in a new task.  A
\* session that was not removed stays in the registry under the old task.
HookNext ==
    /\ hook.pc \in {"returned", "raised"}
    /\ hook.leaked < MaxLeaked \/ ~hook.registered
    /\ hook' = [HookIdle EXCEPT
                  !.leaked = IF hook.registered THEN hook.leaked + 1 ELSE hook.leaked]
    /\ HookFrame

NextH ==
    \/ HookCall
    \/ HookCommit
    \/ HookRollback
    \/ HookRemove
    \/ HookNext

SpecH == InitH /\ [][NextH]_vars

HookEnded == hook.pc \in {"returned", "raised"}
Is2xx(status_code) == 200 <= status_code /\ status_code < 300

\* C19: session_after_request commits the scoped session when the status is
\* in [200, 300) and rolls it back otherwise, never both, and in every case,
\* a failing commit or rollback included, the scoped session has been
\* removed when the hook ends.
C19_CommitOrRollbackThenRemove ==
    HookEnded =>
        /\ hook.ops[1] = (IF Is2xx(hook.status_code) THEN "commit" ELSE "rollback")
        /\ \A i \in 2..Len(hook.ops) : hook.ops[i] \notin {"commit", "rollback"}
        /\ ~hook.registered

\* What holds of C19: commit exactly for a status in [200, 300), rollback
\* otherwise, never both; and the session is removed when the hook returns.
CommitXorRollback ==
    HookEnded =>
        /\ hook.ops[1] = (IF Is2xx(hook.status_code) THEN "commit" ELSE "rollback")
        /\ \A i \in 2..Len(hook.ops) : hook.ops[i] \notin {"commit", "rollback"}
        /\ hook.pc = "returned" => ~hook.registered
        /\ hook.pc = "raised" => hook.registered

\* ------------------------------------------------------ TimeoutMiddleware
\* core/middlewares/timeout.py.  One call of the middleware: the scope, the
\* wrapped app (the messages it sends, in order, and how it ends), how far
\* the app has got, and the messages that reached the downstream send.

MaxBodies == 2
ScopeTypes == {"http", "websocket", "lifespan"}

HTTP_504_GATEWAY_TIMEOUT == 504

AppMessage(type, status) == [type |-> type, status |-> status, by |-> "app"]
\* send_response: message_head and message_body.
MessageHead(status_code) ==
    [type |-> "http.response.start", status |-> status_code, by |-> "middleware"]
MessageBody == [type |-> "http.response.body", status |-> 0, by |-> "middleware"]

\* What a wrapped app sends: nothing, or a response start followed by body
\* messages (for a websocket or lifespan scope, messages of that protocol).
RECURSIVE Bodies(_, _)
Bodies(type, n) ==
    IF n = 0 THEN << >> ELSE Append(Bodies(type, n - 1), AppMessage(type, 0))
AppScripts(scope_type) ==
    IF scope_type = "http"
    THEN {<< >>} \cup {<<AppMessage("http.response.start", 200)>>
                          \o Bodies("http.response.body", n) : n \in 0..MaxBodies}
    ELSE {Bodies(scope_type, n) : n \in 0..MaxBodies}

\* How the app ends once it has sent its messages: it returns, it never
\* does (it awaits something that does not come), or it raises.
AppEnds == {"returns", "hangs", "TimeoutError", "RuntimeError"}

InitM ==
    /\ store = NoRows
    /\ tx = NoRows
    /\ objs = [h \in Handles |-> FreeObj]
    /\ last = Call("init", FALSE, 0, 0,
                   Outcome(objs, tx, store, "none", NoExc, RetNone))
    /\ table = << >>
    /\ stmt = Select("Account")
    /\ qlast = QCall("init", << >>, QOutcome("none", NoExc, RetNone))
    /\ gather = GatherIdle
    /\ coder = EncIdle
    /\ hook = HookIdle
    /\ mw = MwIdle

MwFrame == UNCHANGED <<crudVars, queryVars, gather, coder, hook>>

\* __call__(scope, receive, send): the app is started, under wait_for with a
\* timeout of 10 seconds when the scope is http, directly otherwise.
MwCall ==
    /\ mw.pc = "idle"
    /\ \E scope_type \in ScopeTypes, ends \in AppEnds :
       \E script \in AppScripts(scope_type) :
          mw' = [pc |-> "app", scope_type |-> scope_type, script |-> script,
                 ends |-> ends, at |-> 0, sent |-> << >>,
                 timed |-> scope_type = "http", exc |-> NoExc]
    /\ MwFrame

\* The app awaits send(message): the message reaches the downstream send.
AppSend ==
    /\ mw.pc = "app" /\ mw.at < Len(mw.script)
    /\ mw' = [mw EXCEPT !.at = @ + 1, !.sent = Append(@, mw.script[mw.at + 1])]
    /\ MwFrame

\* The app returns or raises.  asyncio.TimeoutError raised by the app under
\* wait_for is caught by the except clause of __call__ like a timeout; any
\* other exception, and every exception of a scope that is not http, leaves
\* the middleware.
AppEnd ==
    /\ mw.pc = "app" /\ mw.at = Len(mw.script) /\ mw.ends # "hangs"
    /\ mw' = [mw EXCEPT
                !.pc = CASE mw.ends = "returns" -> "returned"
                         [] mw.ends = "TimeoutError" /\ mw.timed -> "timeout"
                         [] OTHER -> "raised",
                !.exc = IF mw.ends = "returns" \/ (mw.ends = "TimeoutError" /\ mw.timed)
                        THEN NoExc ELSE Raw(mw.ends)]
    /\ MwFrame

\* The 10 seconds pass while the app has not finished: wait_for cancels the
\* app and raises asyncio.TimeoutError.
Timeout ==
    /\ mw.pc = "app" /\ mw.timed
    /\ mw' = [mw EXCEPT !.pc = "timeout"]
    /\ MwFrame

\* except asyncio.TimeoutError: send_response(504, scope, send):
\* await send(message_head)
SendHead ==
    /\ mw.pc = "timeout"
    /\ mw' = [mw EXCEPT !.pc = "head",
                !.sent = Append(@, MessageHead(HTTP_504_GATEWAY_TIMEOUT))]
    /\ MwFrame

\* await send(message_body)
SendBody ==
    /\ mw.pc = "head"
    /\ mw' = [mw EXCEPT !.pc = "returned", !.sent = Append(@, MessageBody)]
    /\ MwFrame

\* The server makes its next call of the middleware.
MwNext ==
    /\ mw.pc \in {"returned", "raised"}
    /\ mw' = MwIdle
    /\ MwFrame

NextM ==
    \/ MwCall
    \/ AppSend
    \/ AppEnd
    \/ Timeout
    \/ SendHead
    \/ SendBody
    \/ MwNext

SpecM == InitM /\ [][NextM]_vars

Starts(sent) == {i \in DOMAIN sent : sent[i].type = "http.response.start"}
ByMiddleware(sent) == {i \in DOMAIN sent : sent[i].by = "middleware"}

\* C20: for an http request at most one http.response.start reaches the
\* downstream send, in every interleaving of the app and the timeout: the
\* 504 start is sent only when the app has sent no response start, no
\* message of the app follows it, and a scope that is not http gets no
\* timeout.
C20_AtMostOneStart ==
    /\ Cardinality(Starts(mw.sent)) <= 1
    /\ \A i \in ByMiddleware(mw.sent), j \in DOMAIN mw.sent :
          mw.sent[j].by = "app" => j < i /\ mw.sent[j].type # "http.response.start"
    /\ mw.scope_type # "http" => ByMiddleware(mw.sent) = {}

\* What holds of C20: the messages of the app reach the downstream send in
\* order and before any message of the middleware, the middleware sends its
\* 504 start and body at most once, and only for an http scope.
AppSilentAfter504 ==
    /\ \A i \in ByMiddleware(mw.sent), j \in DOMAIN mw.sent :
          mw.sent[j].by = "app" => j < i
    /\ Cardinality(ByMiddleware(mw.sent)) <= 2
    /\ mw.scope_type # "http" => ByMiddleware(mw.sent) = {} /\ mw.pc # "timeout"
    /\ \A j \in DOMAIN mw.sent : mw.sent[j].by = "app" => mw.sent[j] = mw.script[j]

====
